---------------------------- MODULE Spec2Model ----------------------------
(***************************************************************************)
(* Client-side build orchestration of Nirman.                              *)
(*                                                                         *)
(*   Builder.jsx   : the chat builder page; a submitted request is either  *)
(*                   one provider call (single shot) or an Auto Mode run   *)
(*                   (analyzeAndPlan, then executeStep per plan step).     *)
(*   BuildChat.jsx : the build panel; starts a build job and follows its   *)
(*                   Server-Sent-Events stream.                            *)
(*                                                                         *)
(* Texts (prompts, provider responses, code) are sequences of one-         *)
(* character strings, so that String.includes and the code-fence regular   *)
(* expression are computed character by character.  A planning response is *)
(* a sequence of JSON lexemes.  The router mounts one page at a time;      *)
(* `route` says which.  The Builder starts after the two fetches of its    *)
(* mount effect (fetchProject, fetchChatHistory) have settled.             *)
(***************************************************************************)
EXTENDS Integers, Sequences, FiniteSets, TLC

(***************************************************************************)
(* Bounds of the exploration.                                              *)
(***************************************************************************)
\* Builder requests submitted in one behaviour.
MaxRequests == 1
\* Longest planning response enumerated lexeme by lexeme.
MaxPlanLen == 3
\* Build jobs started from BuildChat in one behaviour.
MaxBuilds == 1
\* Frames the streams send a second time in one behaviour.
MaxRepeats == 1
\* the longest drawn text, in tokens
MaxTextLen == 4
\* the most words of a drawn request
MaxWords == 2

(***************************************************************************)
(* Texts.                                                                  *)
(***************************************************************************)
EmptyText == << >>

NL == <<"\n">>

\* The code fence: three backquotes.  The character is written "'" here, a
\* backquote not being allowed in a string of the module.
Fence == <<"'", "'", "'">>

\* The language tags the regular expression of extractCodeFromResponse knows,
\* in the order of its alternation.
LangTags ==
  << <<"h","t","m","l">>,
     <<"j","s","x">>,
     <<"j","a","v","a","s","c","r","i","p","t">>,
     <<"c","s","s">> >>

\* t has the text w at position i (1-based).
HasAt(t, i, w) ==
  /\ i >= 1
  /\ i + Len(w) - 1 <= Len(t)
  /\ \A k \in 1..Len(w) : t[i + k - 1] = w[k]

\* String.prototype.includes
Includes(t, w) == \E i \in 1..(Len(t) + 1) : HasAt(t, i, w)

\* Array.prototype.join of texts
RECURSIVE Join(_, _)
Join(parts, sep) ==
  IF Len(parts) = 0 THEN EmptyText
  ELSE IF Len(parts) = 1 THEN parts[1]
  ELSE parts[1] \o sep \o Join(Tail(parts), sep)

\* Where the body of a fenced block opening at i starts: after the fence and an
\* optional language tag and a line feed; 0 when no block opens at i.
BodyStart(t, i) ==
  IF ~HasAt(t, i, Fence) THEN 0
  ELSE
    LET tagged == {k \in 1..Len(LangTags) : HasAt(t, i + 3, LangTags[k] \o NL)}
    IN  IF tagged # {}
          THEN LET k == CHOOSE x \in tagged : \A y \in tagged : x <= y
               IN  i + 3 + Len(LangTags[k]) + 1
        ELSE IF HasAt(t, i + 3, NL) THEN i + 4
        ELSE 0

\* CloseAt taking the end of the text for a closing fence.
CloseAt_OrEnd(t, b) ==
  LET ks == {k \in b..Len(t) : HasAt(t, k, Fence)}
  IN  IF ks = {} THEN Len(t) + 1 ELSE CHOOSE k \in ks : \A j \in ks : k <= j

\* The first closing fence at or after position b; 0 when there is none.
CloseAt(t, b) ==
  LET ks == {k \in b..Len(t) : HasAt(t, k, Fence)}
  IN  IF ks = {} THEN 0 ELSE CHOOSE k \in ks : \A j \in ks : k <= j

\* The bodies codeBlockRegex.exec finds from position i on, in order.
RECURSIVE FenceBodies(_, _)
FenceBodies(t, i) ==
  IF i > Len(t) THEN << >>
  ELSE
    LET b == BodyStart(t, i)
        c == IF b = 0 THEN 0 ELSE CloseAt(t, b)
    IN  IF b = 0 \/ c = 0 THEN FenceBodies(t, i + 1)
        ELSE <<SubSeq(t, b, c - 1)>> \o FenceBodies(t, c + 3)

extractCodeFromResponse(text) ==
  IF text = EmptyText THEN EmptyText
  ELSE Join(FenceBodies(text, 1), NL \o NL)

\* The document the preview puts the code in, from its <body> tag on: what
\* stands before the code and what stands after it.
PreviewHead == <<"<","b","o","d","y",">">>
PreviewTail == <<"<","/","b","o","d","y",">">>

\* The srcDoc of the preview iframe.
getPreviewContent(generated) ==
  LET code == extractCodeFromResponse(generated)
  IN  IF code = EmptyText THEN EmptyText ELSE PreviewHead \o code \o PreviewTail


(***************************************************************************)
(* Providers and routing (Builder.jsx).                                    *)
(***************************************************************************)
\* Two of the values of the provider <select>; routing can set two more.
Providers == {"openai", "grok"}

\* The capital letters of the texts used here, for toLowerCase.
LowerOf(c) ==
  CASE c = "B" -> "b"
    [] c = "D" -> "d"
    [] c = "U" -> "u"
    [] c = "I" -> "i"
    [] OTHER -> c

toLowerCase(t) == [k \in 1..Len(t) |-> LowerOf(t[k])]

IsSpace(c) == c = " " \/ c = "\n"

\* String.prototype.trim
trim(t) ==
  LET solid == {k \in 1..Len(t) : ~IsSpace(t[k])}
  IN  IF solid = {} THEN EmptyText
      ELSE SubSeq(t, CHOOSE a \in solid : \A k \in solid : a <= k,
                     CHOOSE b \in solid : \A k \in solid : b >= k)

DesignCues ==
  { <<"d","e","s","i","g","n">>, <<"u","i">>,
    <<"b","e","a","u","t","i","f","u","l">>, <<"s","t","y","l","e">> }

LogicCues ==
  { <<"c","o","m","p","l","e","x">>, <<"l","o","g","i","c">>,
    <<"f","u","n","c","t","i","o","n">>,
    <<"a","l","g","o","r","i","t","h","m">> }

SpeedCues ==
  { <<"f","a","s","t">>, <<"s","i","m","p","l","e">>, <<"q","u","i","c","k">> }

\* step.prompt.toLowerCase() raises a TypeError when the step has no prompt.
chooseBestAIThrows(step) == ~step.hasPrompt

\* chooseBestAI looking for the logic cues before the design cues.
chooseBestAI_LogicFirst(step, selected) ==
  LET prompt == toLowerCase(step.prompt)
  IN  IF \E w \in LogicCues : Includes(prompt, w) THEN "openai"
      ELSE IF \E w \in DesignCues : Includes(prompt, w) THEN "claude"
      ELSE IF \E w \in SpeedCues : Includes(prompt, w) THEN "gemini"
      ELSE selected

\* chooseBestAI falling back to a fixed provider.
chooseBestAI_FixedDefault(step, selected) ==
  LET prompt == toLowerCase(step.prompt)
  IN  IF \E w \in DesignCues : Includes(prompt, w) THEN "claude"
      ELSE IF \E w \in LogicCues : Includes(prompt, w) THEN "openai"
      ELSE IF \E w \in SpeedCues : Includes(prompt, w) THEN "gemini"
      ELSE "openai"

chooseBestAI(step, selected) ==
  LET prompt == toLowerCase(step.prompt)
  IN  IF \E w \in DesignCues : Includes(prompt, w) THEN "claude"
      ELSE IF \E w \in LogicCues : Includes(prompt, w) THEN "openai"
      ELSE IF \E w \in SpeedCues : Includes(prompt, w) THEN "gemini"
      ELSE selected

TypeErrorMessage == "Cannot read properties of undefined (reading 'toLowerCase')"

(***************************************************************************)
(* The planning response (Builder.jsx, analyzeAndPlan).  A response is a   *)
(* sequence of lexemes: "[", "]", ",", a JSON object of the catalogue      *)
(* below, or "x", a stretch of narrative that is no JSON.                  *)
(***************************************************************************)
P_design == <<"D","e","s","i","g","n">>
P_logic == <<"l","o","g","i","c">>
P_app == <<"a","p","p">>
P_quick == <<"q","u","i","c","k">>

\* A step as JSON.parse yields it; hasPrompt is FALSE for an element with no
\* prompt property, step is 0 for an element with no step property.
StepObject(lex) ==
  CASE lex = "{1}" -> [step |-> 1, title |-> "Layout", prompt |-> P_design, hasPrompt |-> TRUE]
    [] lex = "{2}" -> [step |-> 2, title |-> "Logic", prompt |-> P_logic, hasPrompt |-> TRUE]
    [] lex = "{3}" -> [step |-> 3, title |-> "Content", prompt |-> P_app, hasPrompt |-> TRUE]
    [] lex = "{4}" -> [step |-> 4, title |-> "Polish", prompt |-> P_quick, hasPrompt |-> TRUE]
    [] lex = "{n}" -> [step |-> 5, title |-> "Notes", prompt |-> EmptyText, hasPrompt |-> FALSE]

ObjectLexemes == {"{1}", "{2}", "{3}", "{4}", "{n}"}

\* An element that is itself an array: no step, title or prompt property.
ArrayElement == [step |-> 0, title |-> "undefined", prompt |-> EmptyText, hasPrompt |-> FALSE]

\* The index after the JSON value that starts at i, 0 when none does.
RECURSIVE ParseValue(_, _)
RECURSIVE ParseElems(_, _)
ParseValue(t, i) ==
  IF i > Len(t) THEN 0
  ELSE IF t[i] \in ObjectLexemes THEN i + 1
  ELSE IF t[i] = "[" THEN
    IF i + 1 <= Len(t) /\ t[i + 1] = "]" THEN i + 2 ELSE ParseElems(t, i + 1)
  ELSE 0

ParseElems(t, i) ==
  LET j == ParseValue(t, i)
  IN  IF j = 0 \/ j > Len(t) THEN 0
      ELSE IF t[j] = "]" THEN j + 1
      ELSE IF t[j] = "," THEN ParseElems(t, j + 1)
      ELSE 0

\* JSON.parse accepts t as an array.
IsJsonArray(t) == Len(t) >= 2 /\ t[1] = "[" /\ ParseValue(t, 1) = Len(t) + 1

\* The elements of the JSON array whose first element starts at i.
RECURSIVE ArrayElements(_, _)
ArrayElements(t, i) ==
  IF t[i] = "]" THEN << >>
  ELSE
    LET j == ParseValue(t, i)
        v == IF t[i] = "[" THEN ArrayElement ELSE StepObject(t[i])
    IN  <<v>> \o (IF t[j] = "," THEN ArrayElements(t, j + 1) ELSE << >>)

JSONparse(t) == ArrayElements(t, 2)

\* planText.match(/\[[\s\S]*\]/): from the first "[" to the last "]" after it;
\* the empty text when there is no match.
jsonMatch(planText) ==
  LET opens == {i \in 1..Len(planText) : planText[i] = "["}
  IN  IF opens = {} THEN << >>
      ELSE
        LET a == CHOOSE i \in opens : \A k \in opens : i <= k
            closes == {i \in (a + 1)..Len(planText) : planText[i] = "]"}
        IN  IF closes = {} THEN << >>
            ELSE LET b == CHOOSE i \in closes : \A k \in closes : i >= k
                 IN  SubSeq(planText, a, b)

\* FallbackPlan with the planning instruction, not the request, as the prompt.
FallbackPlan_InstructionAsPrompt(userRequest) ==
  << [step |-> 1, title |-> "Build Complete App",
      prompt |-> <<"P","L","A","N",":">> \o userRequest, hasPrompt |-> TRUE] >>

\* The single step of the catch block of analyzeAndPlan.
FallbackPlan(userRequest) ==
  << [step |-> 1, title |-> "Build Complete App", prompt |-> userRequest, hasPrompt |-> TRUE] >>

\* analyzeAndPlan once its provider call has settled with `reply`.
analyzeAndPlan(userRequest, reply) ==
  IF ~reply.ok THEN FallbackPlan(userRequest)
  ELSE
    LET m == jsonMatch(reply.message)
    IN  IF m # << >> /\ IsJsonArray(m) THEN JSONparse(m)
        ELSE FallbackPlan(userRequest)

\* The instruction text sent by analyzeAndPlan, cut to a marker and the request.
planPrompt(userRequest) == <<"P","L","A","N",":">> \o userRequest

\* "\n\nBuild upon this existing code:\n" and the opening of the html fence
BuildUpon ==
  NL \o NL \o
  <<"B","u","i","l","d"," ","u","p","o","n"," ","t","h","i","s"," ",
    "e","x","i","s","t","i","n","g"," ","c","o","d","e",":">> \o
  NL \o Fence \o <<"h","t","m","l">> \o NL

\* enhancedPrompt that sends the step's prompt alone.
enhancedPrompt_NoContext(step, previousCode) == step.prompt

\* The prompt executeStep sends.
enhancedPrompt(step, previousCode) ==
  IF previousCode # EmptyText
    THEN step.prompt \o BuildUpon \o previousCode \o NL \o Fence
    ELSE step.prompt


(***************************************************************************)
(* Inputs: what the user types and what the provider answers.              *)
(***************************************************************************)
\* What the user may type into the input box: a request (with a trailing
\* blank), or only a blank.
TypedInputs == { P_app \o <<" ">>, <<" ">> }

\* A stored project whose last response carries code.
StoredResponse == Fence \o NL \o <<"S">> \o Fence

InitialCodes == {EmptyText, StoredResponse}

R_none == <<"o","k">>
R_codeA == Fence \o <<"h","t","m","l">> \o NL \o <<"A">> \o NL \o Fence

StepResponses == {R_none, R_codeA}

\* A failed call: error.message, and error.response.data.detail ("" when the
\* failure carries no response).
ProviderErrors ==
  { [message |-> "Request failed with status code 500", detail |-> "AI provider error"],
    [message |-> "Network Error", detail |-> ""] }

NoError == [message |-> "", detail |-> ""]

OkReply(text) == [ok |-> TRUE, message |-> text, error |-> NoError]
FailedReply(err) == [ok |-> FALSE, message |-> EmptyText, error |-> err]
NoReply == [ok |-> FALSE, message |-> EmptyText, error |-> NoError]

NoCancel == [requested |-> FALSE, after |-> 0]

\* currentJob of AgentChat: null
NoJob == [job_id |-> 0, status |-> "", progress |-> 0, response |-> "", error |-> ""]

PlanLexemes == {"[", "]", "{1}"}

RECURSIVE SeqsUpTo(_, _)
SeqsUpTo(S, n) ==
  IF n = 0 THEN {<< >>}
  ELSE LET shorter == SeqsUpTo(S, n - 1)
       IN  shorter \cup {Append(q, x) : q \in {r \in shorter : Len(r) = n - 1}, x \in S}

\* Planning responses: every short lexeme sequence, and some whole plans.
LongPlans ==
  { <<"x">>,
    <<"x", "[", "x", "]">>,
    <<"x", "[", "{1}", ",", "{2}", ",", "{3}", "]", "x">>,
    <<"[", "{1}", ",", "{2}", ",", "{3}", ",", "{4}", "]">>,
    <<"[", "{2}", ",", "{1}", "]">>,
    <<"[", "{1}", ",", "]">>,
    <<"[", ",", "{1}", "]">>,
    <<"[", "{1}", ",", "{n}", "]">>,
    <<"[", "{3}", ",", "[", "]", "]">>,
    <<"x", "[", "x", "]", "[", "{1}", "]">> }

PlanTexts == SeqsUpTo(PlanLexemes, MaxPlanLen) \cup LongPlans

\* The words the drawn requests are made of: cues of each bucket, one of them
\* capitalised, and a word that is no cue.
RouteWords ==
  { <<"b","e","a","u","t","i","f","u","l">>, <<"D","e","s","i","g","n">>,
    <<"l","o","g","i","c">>, <<"f","a","s","t">>, <<"q","u","i","c","k">>,
    <<"p","a","g","e">> }

\* Requests of up to MaxWords words, one blank between two.
RoutePrompts ==
  { Join(ws, <<" ">>) : ws \in SeqsUpTo(RouteWords, MaxWords) \ {<< >>} }

\* The pieces the drawn texts are made of: a fence, a line feed, a letter, a
\* recognised language tag.
TextTokens == { Fence, NL, <<"a">>, <<"h","t","m","l">> }

\* "Build a pricing page"
PricingPrompt ==
  <<"B","u","i","l","d"," ","a"," ","p","r","i","c","i","n","g"," ","p","a","g","e">>

\* "<div>Pricing</div>"
PricingLine ==
  <<"<","d","i","v",">","P","r","i","c","i","n","g","<","/","d","i","v",">">>

\* An html-fenced block whose body is the one line PricingLine.
PricingResponse == Fence \o <<"h","t","m","l">> \o NL \o PricingLine \o NL \o Fence

\* A block tagged py, a line of narrative, an html block.
MixedResponse ==
  Fence \o <<"p","y">> \o NL \o <<"x">> \o NL \o Fence \o NL \o
  <<"n","o","t","e">> \o NL \o
  Fence \o <<"h","t","m","l">> \o NL \o <<"A">> \o NL \o Fence

\* Two recognised blocks with narrative before, between and after them.
TwoBlocks ==
  <<"s","e","e">> \o NL \o Fence \o <<"c","s","s">> \o NL \o <<"A">> \o NL \o Fence \o
  <<"a","n","d">> \o Fence \o NL \o <<"B">> \o Fence \o <<"e","n","d">>

SampleTexts == { PricingResponse, MixedResponse, TwoBlocks }

\* Texts a response or a stored code can be.
Texts ==
  { Join(ts, EmptyText) : ts \in SeqsUpTo(TextTokens, MaxTextLen) } \cup SampleTexts

(***************************************************************************)
(* State.                                                                  *)
(***************************************************************************)
VARIABLES
  route,          \* the mounted page: "builder", "build" or "agent"
  \* Builder.jsx, React state
  messages, input, loading, aiProvider, generatedCode,
  autoMode, autoSteps, currentStep, isAutoRunning,
  \* Builder.jsx, the request in progress
  pc,             \* where sendMessage / runAutoMode is suspended
  userRequest,    \* userMessage
  steps,          \* const steps of runAutoMode
  stepI,          \* the loop index i, counted from 1
  currentCode,    \* let currentCode of runAutoMode
  closure,        \* aiProvider and generatedCode as the running handler sees them
  reply,          \* the settled provider call the handler has yet to resume on
  calls,          \* every chatAPI.sendMessage issued, in order
  requests,       \* requests submitted so far
  \* Builder.jsx, what has happened to the run in progress
  planReply,      \* the settled planning call its plan was made from
  cancelRequest,  \* whether its cancellation was asked for, and after how many
                  \* settled steps
  \* BuildChat.jsx, React state and refs
  buildPrompt, isBuilding, currentJob, events, progress, error,
  eventSourceRef, \* the job whose EventSource the ref holds, 0 for none
  mounted,
  \* BuildChat.jsx, handlers suspended at an await
  startPending,   \* handleStartBuild awaits buildAPI.startBuild
  cancelPending,  \* handleCancel awaits buildAPI.cancelJob: the job, 0 for none
  \* the browser and the server
  token,          \* localStorage holds a token
  openSources,    \* the jobs whose EventSource is open
  streams,        \* per job started, the frames its stream has delivered
  \* what BuildChat has told and been told
  buildCompletes, \* the jobs onBuildComplete was called for
  received,       \* the event frames the mounted component has handled since
                  \* the last start, in order
  repeats,        \* frames the streams have sent a second time
  ended,          \* the jobs whose stream_end frame the page has received
  \* AgentChat.jsx, React state and refs
  agentMessages,  \* messages
  agentInput,     \* input
  isLoading,
  agentJob,       \* currentJob
  agentEvents,    \* events
  agentSourceRef, \* eventSourceRef: the job whose EventSource it holds, 0 for none
  \* AgentChat.jsx, handlers suspended at an await
  chatPending,    \* sendMessage awaits the POST of /agent/chat
  fetchPending,   \* fetchJobResult awaits the GET of the job: the job, 0 for none
  \* the server
  stopped         \* the jobs it was asked to stop

chatVars ==
  << buildPrompt, isBuilding, currentJob, events, progress, error, eventSourceRef,
     mounted, startPending, cancelPending, token, openSources, streams,
     buildCompletes, received, repeats >>

builderVars ==
  << messages, input, loading, aiProvider, generatedCode, autoMode, autoSteps,
     currentStep, isAutoRunning, pc, userRequest, steps, stepI, currentCode,
     closure, reply, calls, requests, planReply, cancelRequest >>

agentVars ==
  << agentMessages, agentInput, isLoading, agentJob, agentEvents, agentSourceRef,
     chatPending, fetchPending, stopped >>

vars == << route, builderVars, chatVars, ended, agentVars >>

\* A chat message.  index/total number a step message; label holds fixed or
\* error text, content a text of the user or the provider.
Msg(role, kind, index, total, label, content) ==
  [role |-> role, kind |-> kind, index |-> index, total |-> total,
   label |-> label, content |-> content]

UserMsg(text) == Msg("user", "text", 0, 0, "", text)
AssistantMsg(text) == Msg("assistant", "text", 0, 0, "", text)
AssistantErrorMsg(label) == Msg("assistant", "error", 0, 0, label, EmptyText)
ActivatedMsg == Msg("system", "activated", 0, 0, "Auto Mode activated! Analyzing your request...", EmptyText)
PlanMsg(sts) == Msg("system", "plan", 0, Len(sts), "", [k \in 1..Len(sts) |-> sts[k].title])
\* StepMsg numbering the steps from 0.
StepMsg_FromZero(i, n, title) == Msg("system", "step", i - 1, n, title, EmptyText)

StepMsg(i, n, title) == Msg("system", "step", i, n, title, EmptyText)
CompletedMsg == Msg("system", "completed", 0, 0, "Auto Mode completed! Your app is ready.", EmptyText)
ErrorMsg(label) == Msg("system", "error", 0, 0, label, EmptyText)

Call(kind, i, prompt, provider) ==
  [kind |-> kind, index |-> i, prompt |-> prompt, provider |-> provider]

\* The state after the page has mounted, its stored code one of codes, and,
\* of the Builder page, with one of inputs typed into its input field.
InitWith(codes, inputs) ==
  /\ route \in {"builder", "build", "agent"}
  /\ messages = << >>
  /\ input \in (IF route = "builder" THEN inputs ELSE {EmptyText})
  /\ loading = FALSE
  /\ aiProvider = "openai"
  /\ generatedCode \in (IF route = "builder" THEN codes ELSE {EmptyText})
  /\ autoMode = FALSE
  /\ autoSteps = << >>
  /\ currentStep = 0
  /\ isAutoRunning = FALSE
  /\ pc = "idle"
  /\ userRequest = EmptyText
  /\ steps = << >>
  /\ stepI = 0
  /\ currentCode = EmptyText
  /\ closure = [aiProvider |-> "openai", generatedCode |-> EmptyText]
  /\ reply = NoReply
  /\ calls = << >>
  /\ requests = 0
  /\ planReply = NoReply
  /\ cancelRequest = NoCancel
  /\ buildPrompt = EmptyText
  /\ isBuilding = FALSE
  /\ currentJob = 0
  /\ events = << >>
  /\ progress = 0
  /\ error = ""
  /\ eventSourceRef = 0
  /\ mounted = TRUE
  /\ startPending = FALSE
  /\ cancelPending = 0
  /\ token = TRUE
  /\ openSources = {}
  /\ streams = << >>
  /\ buildCompletes = {}
  /\ received = << >>
  /\ repeats = 0
  /\ ended = {}
  /\ agentMessages = << >>
  /\ agentInput = EmptyText
  /\ isLoading = FALSE
  /\ agentJob = NoJob
  /\ agentEvents = << >>
  /\ agentSourceRef = 0
  /\ chatPending = FALSE
  /\ fetchPending = 0
  /\ stopped = {}

Init == InitWith(InitialCodes, {EmptyText})

(***************************************************************************)
(* Builder.jsx: the controls.                                              *)
(***************************************************************************)
\* <input onChange>, disabled while loading or isAutoRunning
TypeInput(text) ==
  /\ route = "builder"
  /\ ~(loading \/ isAutoRunning)
  /\ requests < MaxRequests
  /\ input' = text
  /\ UNCHANGED << chatVars, ended, agentVars >>
  /\ UNCHANGED << route, messages, loading, aiProvider, generatedCode, autoMode,
                  autoSteps, currentStep, isAutoRunning, pc, userRequest, steps,
                  stepI, currentCode, closure, reply, calls, requests,
                  planReply, cancelRequest >>

\* the Auto Mode switch, disabled while isAutoRunning
ToggleAutoMode ==
  /\ route = "builder"
  /\ ~isAutoRunning
  /\ requests < MaxRequests
  /\ autoMode' = ~autoMode
  /\ UNCHANGED << chatVars, ended, agentVars >>
  /\ UNCHANGED << route, messages, input, loading, aiProvider, generatedCode,
                  autoSteps, currentStep, isAutoRunning, pc, userRequest, steps,
                  stepI, currentCode, closure, reply, calls, requests,
                  planReply, cancelRequest >>

\* the provider <select>, disabled while isAutoRunning
SelectProvider(p) ==
  /\ route = "builder"
  /\ ~isAutoRunning
  /\ requests < MaxRequests
  /\ aiProvider' = p
  /\ UNCHANGED << chatVars, ended, agentVars >>
  /\ UNCHANGED << route, messages, input, loading, generatedCode, autoMode,
                  autoSteps, currentStep, isAutoRunning, pc, userRequest, steps,
                  stepI, currentCode, closure, reply, calls, requests,
                  planReply, cancelRequest >>


(***************************************************************************)
(* Builder.jsx: sendMessage, runAutoMode, executeStep.                     *)
(***************************************************************************)
\* LoopNext stepping over an index.
LoopNext_Skips(i) == i + 2

\* The for loop's i++ (the index counted from 1).
LoopNext(i) == i + 1

\* autoModeErrorText with a fixed text in place of the error's message.
autoModeErrorText_Generic(err) == "Something went wrong"

\* The text the catch block of runAutoMode puts after "Auto Mode error: ".
autoModeErrorText(err) == err.message

\* carryForward without the test of newCode.
carryForward_Always(newCode, new, old) == new

\* if (newCode) { currentCode = newCode; setGeneratedCode(result); }
carryForward(newCode, new, old) == IF newCode # EmptyText THEN new ELSE old

\* What is noted about the run in progress lasts until runAutoMode returns.
WhileRunning(noted, nothing) == IF pc' = "idle" THEN nothing ELSE noted

\* EndRun without setCurrentStep(0).
EndRun_KeepsStep(msgs) ==
  /\ messages' = msgs
  /\ isAutoRunning' = FALSE
  /\ currentStep' = currentStep
  /\ pc' = "idle"
  /\ stepI' = 0
  /\ currentCode' = EmptyText

\* The finally block of runAutoMode, after a last message was appended.
EndRun(msgs) ==
  /\ messages' = msgs
  /\ isAutoRunning' = FALSE
  /\ currentStep' = 0
  /\ pc' = "idle"
  /\ stepI' = 0
  /\ currentCode' = EmptyText

\* One pass of the for loop from its head to the await of executeStep, for
\* index i (from 1), with the messages and the cumulative code so far; past
\* the last step, the completion message and the finally block.
StepStart(sts, i, msgs, code) ==
  IF i > Len(sts) THEN
    /\ EndRun(Append(msgs, CompletedMsg))
    /\ UNCHANGED << aiProvider, loading, calls >>
  ELSE
    LET step == sts[i]
        m1 == Append(msgs, StepMsg(i, Len(sts), step.title))
    IN  IF chooseBestAIThrows(step) THEN
          /\ EndRun(Append(m1, ErrorMsg(TypeErrorMessage)))
          /\ UNCHANGED << aiProvider, loading, calls >>
        ELSE
          /\ messages' = Append(m1, UserMsg(step.prompt))
          /\ currentStep' = i
          /\ aiProvider' = chooseBestAI(step, closure.aiProvider)
          /\ loading' = TRUE
          /\ calls' = Append(calls, Call("step", i, enhancedPrompt(step, code),
                                         closure.aiProvider))
          /\ isAutoRunning' = isAutoRunning
          /\ pc' = "step_wait"
          /\ stepI' = i
          /\ currentCode' = code

\* runAutoMode that does not set isAutoRunning.
runAutoMode_NoFlag(userMessage, msgs) ==
  /\ isAutoRunning' = isAutoRunning
  /\ autoSteps' = << >>
  /\ currentStep' = 0
  /\ messages' = Append(msgs, ActivatedMsg)
  /\ calls' = Append(calls, Call("plan", 0, planPrompt(userMessage), aiProvider))
  /\ pc' = "plan_wait"

\* runAutoMode up to the planning call: lines 129-143 (and 95-96).
runAutoMode(userMessage, msgs) ==
  /\ isAutoRunning' = TRUE
  /\ autoSteps' = << >>
  /\ currentStep' = 0
  /\ messages' = Append(msgs, ActivatedMsg)
  /\ calls' = Append(calls, Call("plan", 0, planPrompt(userMessage), aiProvider))
  /\ pc' = "plan_wait"

\* <form onSubmit={sendMessage}>; input and button are disabled while loading
\* or isAutoRunning.
sendMessage ==
  /\ route = "builder"
  /\ ~(loading \/ isAutoRunning)
  /\ trim(input) # EmptyText
  /\ requests < MaxRequests
  /\ requests' = requests + 1
  /\ userRequest' = trim(input)
  /\ input' = EmptyText
  /\ closure' = [aiProvider |-> aiProvider, generatedCode |-> generatedCode]
  /\ reply' = NoReply
  /\ IF autoMode THEN
       /\ runAutoMode(trim(input), Append(messages, UserMsg(trim(input))))
       /\ UNCHANGED loading
     ELSE
       /\ messages' = Append(messages, UserMsg(trim(input)))
       /\ loading' = TRUE
       /\ calls' = Append(calls, Call("single", 0, trim(input), aiProvider))
       /\ pc' = "single_wait"
       /\ UNCHANGED << isAutoRunning, autoSteps, currentStep >>
  /\ UNCHANGED << chatVars, ended, agentVars >>
  /\ planReply' = NoReply
  /\ cancelRequest' = NoCancel
  /\ UNCHANGED << route, aiProvider, generatedCode, autoMode, steps, stepI, currentCode >>

\* The provider call in flight settles: a response, or a failure.
ProviderSettles(r) ==
  /\ route = "builder"
  /\ pc \in {"plan_wait", "step_wait", "single_wait"}
  /\ reply = NoReply
  /\ \/ ~r.ok
     \/ pc = "plan_wait" /\ r.message \in PlanTexts
     \/ pc # "plan_wait" /\ r.message \in StepResponses
  /\ reply' = r
  /\ UNCHANGED << chatVars, ended, agentVars >>
  /\ UNCHANGED << route, messages, input, loading, aiProvider, generatedCode,
                  autoMode, autoSteps, currentStep, isAutoRunning, pc, userRequest,
                  steps, stepI, currentCode, closure, calls, requests,
                  planReply, cancelRequest >>

\* runAutoMode resumes with the plan: lines 143-176.
PlanSettled ==
  /\ pc = "plan_wait"
  /\ reply # NoReply
  /\ \E sts \in {analyzeAndPlan(userRequest, reply)} :
       /\ steps' = sts
       /\ autoSteps' = sts
       /\ StepStart(sts, 1, Append(messages, PlanMsg(sts)),
                    extractCodeFromResponse(closure.generatedCode))
  /\ reply' = NoReply
  /\ planReply' = WhileRunning(reply, NoReply)
  /\ UNCHANGED << chatVars, ended, agentVars >>
  /\ UNCHANGED << route, input, generatedCode, autoMode, userRequest, closure, requests,
                  cancelRequest >>

\* runAutoMode resumes after executeStep: lines 177-193, or the catch block.
StepSettled ==
  /\ pc = "step_wait"
  /\ reply # NoReply
  /\ reply' = NoReply
  /\ IF reply.ok THEN
       LET result == reply.message
           newCode == extractCodeFromResponse(result)
       IN  /\ loading' = FALSE
           /\ messages' = Append(messages, AssistantMsg(result))
           /\ currentCode' = carryForward(newCode, newCode, currentCode)
           /\ generatedCode' = carryForward(newCode, result, generatedCode)
           /\ pc' = "delay"
           /\ UNCHANGED << isAutoRunning, currentStep, stepI >>
     ELSE
       /\ EndRun(Append(messages, ErrorMsg(autoModeErrorText(reply.error))))
       /\ UNCHANGED << loading, generatedCode >>
  /\ UNCHANGED << chatVars, ended, agentVars >>
  /\ planReply' = WhileRunning(planReply, NoReply)
  /\ cancelRequest' = WhileRunning(cancelRequest, NoCancel)
  /\ UNCHANGED << route, input, aiProvider, autoMode, autoSteps, userRequest,
                  steps, closure, calls, requests >>

\* The 500 ms pause between steps is over: the next pass of the loop.
DelayElapsed ==
  /\ pc = "delay"
  /\ StepStart(steps, LoopNext(stepI), messages, currentCode)
  /\ UNCHANGED << chatVars, ended, agentVars >>
  /\ planReply' = WhileRunning(planReply, NoReply)
  /\ cancelRequest' = WhileRunning(cancelRequest, NoCancel)
  /\ UNCHANGED << route, input, generatedCode, autoMode, autoSteps, userRequest,
                  steps, closure, reply, requests >>

\* A request to cancel the run arrives during the pause between two steps.
\* Builder.jsx offers no control for it and runAutoMode reads no flag: the
\* request is only noted.
RequestCancel ==
  /\ route = "builder"
  /\ pc = "delay"
  /\ ~cancelRequest.requested
  /\ cancelRequest' = [requested |-> TRUE, after |-> stepI]
  /\ UNCHANGED << chatVars, ended, agentVars >>
  /\ UNCHANGED << route, messages, input, loading, aiProvider, generatedCode, autoMode,
                  autoSteps, currentStep, isAutoRunning, pc, userRequest, steps,
                  stepI, currentCode, closure, reply, calls, requests, planReply >>

\* sendMessage resumes after its single provider call: lines 248-257.
SingleSettled ==
  /\ pc = "single_wait"
  /\ reply # NoReply
  /\ reply' = NoReply
  /\ loading' = FALSE
  /\ pc' = "idle"
  /\ IF reply.ok THEN
       /\ messages' = Append(messages, AssistantMsg(reply.message))
       /\ generatedCode' = reply.message
     ELSE
       /\ messages' = Append(messages, AssistantErrorMsg(
            IF reply.error.detail # "" THEN reply.error.detail
            ELSE "Something went wrong"))
       /\ UNCHANGED generatedCode
  /\ UNCHANGED << chatVars, ended, agentVars >>
  /\ UNCHANGED << route, input, aiProvider, autoMode, autoSteps, currentStep,
                  isAutoRunning, userRequest, steps, stepI, currentCode, closure,
                  calls, requests, planReply, cancelRequest >>



(***************************************************************************)
(* The job's event stream, as the server sends it (the build service is    *)
(* not part of the client sources; the frames follow the event types and   *)
(* payloads BuildChat.jsx handles).                                        *)
(***************************************************************************)
Frame(job, k, type, pct, message) ==
  [id |-> job * 10 + k, job |-> job, type |-> type, progress |-> pct,
   message |-> message]

StreamEnd(job) == [id |-> 0, job |-> job, type |-> "stream_end", progress |-> 0,
                   message |-> ""]

\* The frames that can follow the frames `sent` of a job's stream.
NextFrames(job, sent) ==
  LET k == Len(sent)
  IN  CASE k = 0 -> {Frame(job, 1, "job_started", 0, "Build started")}
        [] k = 1 -> {Frame(job, 2, "codegen_started", 30, "Generating code")}
        [] k = 2 -> {Frame(job, 3, "codegen_progress", 60, "Still generating")}
        [] k = 3 -> {Frame(job, 4, "job_completed", 100, "Build completed"),
                     Frame(job, 4, "error", 0, "Provider failed")}
        [] OTHER -> {StreamEnd(job)}

(***************************************************************************)
(* BuildChat.jsx.                                                          *)
(***************************************************************************)
\* EventSource.close(): the stream of `job` delivers nothing more, and what it
\* had delivered is forgotten.
Closed(job) ==
  IF job \in 1..Len(streams) THEN [streams EXCEPT ![job] = << >>] ELSE streams

\* A state setter: without effect once the component is unmounted.
SetState(old, new) == IF mounted THEN new ELSE old

\* <textarea onChange>, disabled while isBuilding
setPrompt(text) ==
  /\ route = "build"
  /\ mounted
  /\ ~isBuilding
  /\ Len(streams) < MaxBuilds
  /\ buildPrompt' = text
  /\ UNCHANGED << isBuilding, currentJob, events, progress, error, eventSourceRef,
                  mounted, startPending, cancelPending, token, openSources,
                  streams, buildCompletes, received, repeats >>
  /\ UNCHANGED << route, builderVars, ended, agentVars >>

\* Start Build (or Ctrl+Enter), offered while not isBuilding: lines 136-145.
handleStartBuildUpTo(jobs) ==
  /\ route = "build"
  /\ mounted
  /\ ~isBuilding
  /\ ~startPending
  /\ trim(buildPrompt) # EmptyText
  /\ Len(streams) < jobs
  /\ isBuilding' = TRUE
  /\ events' = << >>
  /\ progress' = 0
  /\ error' = ""
  /\ startPending' = TRUE
  /\ received' = << >>
  /\ UNCHANGED << buildPrompt, currentJob, eventSourceRef, mounted, cancelPending,
                  token, openSources, streams, buildCompletes, repeats >>
  /\ UNCHANGED << route, builderVars, ended, agentVars >>

handleStartBuild == handleStartBuildUpTo(MaxBuilds)

\* buildAPI.startBuild settles: lines 146-156, and connectToStream lines 75-86.
StartBuildSettles(ok) ==
  /\ route = "build"
  /\ startPending
  /\ startPending' = FALSE
  /\ IF ok THEN
       LET jobId == Len(streams) + 1
       IN  /\ streams' = Append(streams, << >>)
           /\ currentJob' = SetState(currentJob, jobId)
           /\ IF ~token THEN
                /\ error' = SetState(error, "Authentication required")
                /\ UNCHANGED << eventSourceRef, openSources >>
              ELSE
                /\ openSources' = openSources \cup {jobId}
                /\ eventSourceRef' = jobId
                /\ UNCHANGED error
           /\ UNCHANGED isBuilding
     ELSE
       /\ error' = SetState(error, "Failed to start build")
       /\ isBuilding' = SetState(isBuilding, FALSE)
       /\ UNCHANGED << streams, currentJob, eventSourceRef, openSources >>
  /\ UNCHANGED << buildPrompt, events, progress, mounted, cancelPending, token,
                  buildCompletes, received, repeats >>
  /\ UNCHANGED << route, builderVars, ended, agentVars >>

\* addEvent without the test for an entry of the same id.
addEvent_AlwaysAppends(prev, data) == Append(prev, data)

\* The updater passed to setEvents: lines 99-104.
addEvent(prev, data) ==
  IF \E k \in 1..Len(prev) : prev[k].id = data.id THEN prev ELSE Append(prev, data)

\* eventSource.onmessage for the stream of `job`: lines 88-125.
onmessage(job, data) ==
  /\ route = "build"
  /\ job \in openSources
  /\ \/ /\ data \in NextFrames(job, streams[job])
        /\ UNCHANGED repeats
     \/ /\ \E k \in 1..Len(streams[job]) : data = streams[job][k]
        /\ repeats < MaxRepeats
        /\ repeats' = repeats + 1
  /\ streams' = IF data.type = "stream_end" THEN Closed(job)
                ELSE IF data \in NextFrames(job, streams[job])
                  THEN [streams EXCEPT ![job] = Append(@, data)]
                ELSE streams
  /\ IF data.type = "stream_end" THEN
       /\ openSources' = openSources \ {job}
       /\ isBuilding' = SetState(isBuilding, FALSE)
       /\ UNCHANGED << events, progress, error, buildCompletes, received >>
     ELSE
       /\ events' = SetState(events, addEvent(events, data))
       /\ progress' = SetState(progress,
            IF data.progress # 0 THEN data.progress ELSE progress)
       /\ isBuilding' = SetState(isBuilding,
            IF data.type \in {"job_completed", "error"} THEN FALSE ELSE isBuilding)
       /\ error' = SetState(error,
            IF data.type = "error" THEN data.message ELSE error)
       /\ buildCompletes' =
            IF data.type = "job_completed" THEN buildCompletes \cup {job}
            ELSE buildCompletes
       /\ received' = SetState(received, Append(received, data))
       /\ UNCHANGED openSources
  /\ ended' = IF data.type = "stream_end" THEN ended \cup {job} ELSE ended
  /\ UNCHANGED << buildPrompt, currentJob, eventSourceRef, mounted, startPending,
                  cancelPending, token >>
  /\ UNCHANGED << route, builderVars, agentVars >>

\* eventSource.onerror: lines 127-132.
onerror(job) ==
  /\ route = "build"
  /\ job \in openSources
  /\ openSources' = openSources \ {job}
  /\ streams' = Closed(job)
  /\ isBuilding' = SetState(isBuilding, FALSE)
  /\ error' = SetState(error, "Connection lost. Please try again.")
  /\ UNCHANGED << buildPrompt, currentJob, events, progress, eventSourceRef, mounted,
                  startPending, cancelPending, token, buildCompletes, received, repeats >>
  /\ UNCHANGED << route, builderVars, ended, agentVars >>

\* Cancel, offered while isBuilding: lines 160-164.
handleCancel ==
  /\ route = "build"
  /\ mounted
  /\ isBuilding
  /\ currentJob # 0
  /\ cancelPending = 0
  /\ cancelPending' = currentJob
  /\ UNCHANGED << buildPrompt, isBuilding, currentJob, events, progress, error,
                  eventSourceRef, mounted, startPending, token, openSources,
                  streams, buildCompletes, received, repeats >>
  /\ UNCHANGED << route, builderVars, ended, agentVars >>

\* buildAPI.cancelJob settles: lines 165-169.
CancelSettles(ok) ==
  /\ route = "build"
  /\ cancelPending # 0
  /\ cancelPending' = 0
  /\ IF ok THEN
       /\ openSources' = openSources \ {eventSourceRef}
       /\ streams' = Closed(eventSourceRef)
       /\ isBuilding' = SetState(isBuilding, FALSE)
     ELSE UNCHANGED << openSources, streams, isBuilding >>
  /\ UNCHANGED << buildPrompt, currentJob, events, progress, error, eventSourceRef,
                  mounted, startPending, token, buildCompletes, received, repeats >>
  /\ UNCHANGED << route, builderVars, ended, agentVars >>

\* The cleanup of the mount effect: lines 66-72.
Unmount ==
  /\ route = "build"
  /\ mounted
  /\ mounted' = FALSE
  /\ openSources' = openSources \ {eventSourceRef}
  /\ streams' = Closed(eventSourceRef)
  /\ UNCHANGED << buildPrompt, isBuilding, currentJob, events, progress, error,
                  eventSourceRef, startPending, cancelPending, token,
                  buildCompletes, received, repeats >>
  /\ UNCHANGED << route, builderVars, ended, agentVars >>

\* logout, or a failed fetchUser, removes the token from localStorage.
TokenCleared ==
  /\ route = "build"
  /\ token
  /\ startPending
  /\ token' = FALSE
  /\ UNCHANGED << buildPrompt, isBuilding, currentJob, events, progress, error,
                  eventSourceRef, mounted, startPending, cancelPending,
                  openSources, streams, buildCompletes, received, repeats >>
  /\ UNCHANGED << route, builderVars, ended, agentVars >>

(***************************************************************************)
(* The job as the server keeps it (the service is not part of this         *)
(* repository: modelled from the specification's job record, stop request  *)
(* and stream).                                                            *)
(***************************************************************************)
\* The frames that can follow the frames `sent` of the stream of a job: once
\* the server was asked to stop the job, the stream may end with no more
\* events.
AgentNextFrames(job, sent) ==
  NextFrames(job, sent) \cup
  (IF job \in stopped /\ NextFrames(job, sent) # {StreamEnd(job)}
     THEN {StreamEnd(job)} ELSE {})

\* Whether the job's events so far have one of the given type.
HasEvent(job, type) == \E k \in 1..Len(streams[job]) : streams[job][k].type = type

\* The job record a GET of the job returns: the artifact text only on
\* success, the error only on failure.
JobRecord(job) ==
  LET status == IF HasEvent(job, "job_completed") THEN "success"
                ELSE IF HasEvent(job, "error") THEN "failed"
                ELSE IF job \in ended THEN "cancelled"
                ELSE "running"
      last == IF streams[job] = << >> THEN 0
              ELSE streams[job][Len(streams[job])].progress
  IN  [job_id |-> job, status |-> status,
       progress |-> IF status = "success" THEN 100 ELSE last,
       response |-> IF status = "success" THEN "Here is your app." ELSE "",
       error |-> IF status = "failed" THEN "Provider failed" ELSE ""]

(***************************************************************************)
(* AgentChat.jsx.                                                          *)
(***************************************************************************)
\* A chat message of AgentChat: content is the user's text, label a text of
\* the page or the server.
AgentMsg(role, content, label) == [role |-> role, content |-> content, label |-> label]

\* The messages the user has sent.
AgentRequests ==
  Cardinality({k \in 1..Len(agentMessages) : agentMessages[k].role = "user"})

\* <textarea onChange>: lines 417-420.  While a job is loading, typing changes
\* the field alone: it is left to when the job is over.
setInput(text) ==
  /\ route = "agent"
  /\ mounted
  /\ ~isLoading
  /\ AgentRequests < MaxBuilds
  /\ agentInput' = text
  /\ UNCHANGED << agentMessages, isLoading, agentJob, agentEvents, agentSourceRef,
                  chatPending, fetchPending, stopped >>
  /\ UNCHANGED << route, builderVars, chatVars, ended >>

\* sendMessage of AgentChat up to its await: lines 87-103.
agentSendMessage ==
  /\ route = "agent"
  /\ mounted
  /\ trim(agentInput) # EmptyText
  /\ ~isLoading
  /\ AgentRequests < MaxBuilds
  /\ agentMessages' = Append(agentMessages, AgentMsg("user", agentInput, ""))
  /\ agentInput' = EmptyText
  /\ isLoading' = TRUE
  /\ agentEvents' = << >>
  /\ agentJob' = NoJob
  /\ chatPending' = TRUE
  /\ UNCHANGED << agentSourceRef, fetchPending, stopped >>
  /\ UNCHANGED << route, builderVars, chatVars, ended >>

\* The POST of /agent/chat settles: lines 104-129, and connectToStream lines
\* 133-139.
AgentChatSettles(ok) ==
  /\ route = "agent"
  /\ chatPending
  /\ chatPending' = FALSE
  /\ IF ok THEN
       LET jobId == Len(streams) + 1
       IN  /\ streams' = Append(streams, << >>)
           /\ agentJob' = SetState(agentJob, [NoJob EXCEPT !.job_id = jobId,
                                                           !.status = "queued"])
           /\ openSources' = (openSources \ {agentSourceRef}) \cup {jobId}
           /\ agentSourceRef' = jobId
           /\ UNCHANGED << agentMessages, isLoading >>
     ELSE
       /\ agentMessages' = SetState(agentMessages,
            Append(agentMessages,
                   AgentMsg("assistant", EmptyText, "Error: Failed to send message")))
       /\ isLoading' = SetState(isLoading, FALSE)
       /\ UNCHANGED << streams, agentJob, openSources, agentSourceRef >>
  /\ UNCHANGED << agentInput, agentEvents, fetchPending, stopped, ended >>
  /\ UNCHANGED << route, builderVars, buildPrompt, isBuilding, currentJob, events,
                  progress, error, eventSourceRef, mounted, startPending,
                  cancelPending, token, buildCompletes, received, repeats >>

\* agentTimeline without the return after the sentinel.
agentTimeline_NoReturn(prev, data) == Append(prev, data)

\* The events after a frame was handled: lines 144-150.
agentTimeline(prev, data) ==
  IF data.type = "stream_end" THEN prev ELSE Append(prev, data)

\* eventSource.onmessage of AgentChat for the stream of `job`: lines 141-156.
agentOnmessage(job, data) ==
  /\ route = "agent"
  /\ job \in openSources
  /\ data \in AgentNextFrames(job, streams[job])
  /\ agentEvents' = SetState(agentEvents, agentTimeline(agentEvents, data))
  /\ IF data.type = "stream_end" THEN
       /\ openSources' = openSources \ {job}
       /\ fetchPending' = job
       /\ ended' = ended \cup {job}
       /\ UNCHANGED << streams, agentJob >>
     ELSE
       /\ streams' = [streams EXCEPT ![job] = Append(@, data)]
       /\ agentJob' = SetState(agentJob,
            IF agentJob = NoJob THEN agentJob
            ELSE [agentJob EXCEPT !.progress = data.progress])
       /\ UNCHANGED << openSources, fetchPending, ended >>
  /\ UNCHANGED << agentMessages, agentInput, isLoading, agentSourceRef, chatPending,
                  stopped >>
  /\ UNCHANGED << route, builderVars, buildPrompt, isBuilding, currentJob, events,
                  progress, error, eventSourceRef, mounted, startPending,
                  cancelPending, token, buildCompletes, received, repeats >>

\* eventSource.onerror of AgentChat: lines 158-162.
agentOnerror(job) ==
  /\ route = "agent"
  /\ job \in openSources
  /\ openSources' = openSources \ {job}
  /\ fetchPending' = job
  /\ UNCHANGED << agentMessages, agentInput, isLoading, agentJob, agentEvents,
                  agentSourceRef, chatPending, stopped, ended >>
  /\ UNCHANGED << route, builderVars, buildPrompt, isBuilding, currentJob, events,
                  progress, error, eventSourceRef, mounted, startPending,
                  cancelPending, token, streams, buildCompletes, received, repeats >>

\* The message fetchJobResult makes of the job it was returned.
ResultMsg(job) ==
  AgentMsg("assistant", EmptyText,
           IF job.response # "" THEN job.response ELSE "Task completed.")

\* The GET of the job settles and fetchJobResult resumes: lines 168-198.
fetchJobResult(ok) ==
  /\ route = "agent"
  /\ fetchPending # 0
  /\ fetchPending' = 0
  /\ IF ok THEN
       LET job == JobRecord(fetchPending)
       IN  /\ agentMessages' = SetState(agentMessages,
                                        Append(agentMessages, ResultMsg(job)))
           /\ agentJob' = SetState(agentJob, job)
     ELSE UNCHANGED << agentMessages, agentJob >>
  /\ isLoading' = SetState(isLoading, FALSE)
  /\ UNCHANGED << agentInput, agentEvents, agentSourceRef, chatPending, stopped >>
  /\ UNCHANGED << route, builderVars, chatVars, ended >>

\* The stop button, shown while isLoading: lines 202-213.  The request
\* reaches the server, which notes it; the page changes nothing.
stopJob ==
  /\ route = "agent"
  /\ mounted
  /\ isLoading
  /\ agentJob.job_id # 0
  /\ agentJob.job_id \notin stopped
  /\ stopped' = stopped \cup {agentJob.job_id}
  /\ UNCHANGED << agentMessages, agentInput, isLoading, agentJob, agentEvents,
                  agentSourceRef, chatPending, fetchPending >>
  /\ UNCHANGED << route, builderVars, chatVars, ended >>

\* The cleanup of AgentChat's mount effect: lines 79-85.
AgentUnmount ==
  /\ route = "agent"
  /\ mounted
  /\ mounted' = FALSE
  /\ openSources' = openSources \ {agentSourceRef}
  /\ UNCHANGED << route, builderVars, buildPrompt, isBuilding, currentJob, events,
                  progress, error, eventSourceRef, startPending, cancelPending,
                  token, streams, buildCompletes, received, repeats, ended,
                  agentVars >>

\* The frames the stream of a job of AgentChat can deliver.
AgentFrames ==
  UNION {AgentNextFrames(job, streams[job]) : job \in 1..Len(streams)}

Frames ==
  UNION {NextFrames(job, sent) :
           job \in 1..MaxBuilds,
           sent \in {<< >>} \cup UNION {{streams[j]} : j \in 1..Len(streams)}}
  \cup UNION {{streams[j][k] : k \in 1..Len(streams[j])} : j \in 1..Len(streams)}

Replies ==
  {OkReply(t) : t \in PlanTexts \cup StepResponses} \cup
  {FailedReply(e) : e \in ProviderErrors}

Next ==
  \/ \E t \in TypedInputs : TypeInput(t)
  \/ ToggleAutoMode
  \/ \E p \in Providers : SelectProvider(p)
  \/ sendMessage
  \/ \E r \in Replies : ProviderSettles(r)
  \/ PlanSettled
  \/ StepSettled
  \/ DelayElapsed
  \/ SingleSettled
  \/ RequestCancel
  \/ \E t \in TypedInputs : setPrompt(t)
  \/ handleStartBuild
  \/ \E ok \in BOOLEAN : StartBuildSettles(ok)
  \/ \E job \in openSources : \E data \in Frames : onmessage(job, data)
  \/ \E job \in openSources : onerror(job)
  \/ handleCancel
  \/ \E ok \in BOOLEAN : CancelSettles(ok)
  \/ Unmount
  \/ TokenCleared
  \/ \E t \in TypedInputs : setInput(t)
  \/ agentSendMessage
  \/ \E ok \in BOOLEAN : AgentChatSettles(ok)
  \/ \E job \in openSources : \E data \in AgentFrames : agentOnmessage(job, data)
  \/ \E job \in openSources : agentOnerror(job)
  \/ \E ok \in BOOLEAN : fetchJobResult(ok)
  \/ stopJob
  \/ AgentUnmount

Spec == Init /\ [][Next]_vars

(***************************************************************************)
(* The Builder page with any stored code and any provider answer: what     *)
(* extractCodeFromResponse makes of them.                                  *)
(***************************************************************************)
\* The provider call of a single-shot request or of a step settles with the
\* response text t.
ProviderAnswers(t) ==
  /\ route = "builder"
  /\ pc \in {"step_wait", "single_wait"}
  /\ reply = NoReply
  /\ reply' = OkReply(t)
  /\ UNCHANGED << chatVars, ended, agentVars >>
  /\ UNCHANGED << route, messages, input, loading, aiProvider, generatedCode,
                  autoMode, autoSteps, currentStep, isAutoRunning, pc, userRequest,
                  steps, stepI, currentCode, closure, calls, requests,
                  planReply, cancelRequest >>

\* What the provider answers in these runs: the Scenario A block, the text
\* the project has stored, or the prompt it was sent, returned as it is.
Answers ==
  { PricingResponse, closure.generatedCode } \cup
  { calls[k].prompt : k \in {Len(calls)} \ {0} }

\* The plans of these runs: one step, and two steps.
ExtractPlans == { <<"[", "{1}", "]">>, <<"[", "{2}", ",", "{1}", "]">> }

ExtractInit == InitWith(Texts, {PricingPrompt}) /\ route = "builder"

ExtractNext ==
  \/ ToggleAutoMode
  \/ sendMessage
  \/ \E t \in ExtractPlans : ProviderSettles(OkReply(t))
  \/ \E t \in Answers : ProviderAnswers(t)
  \/ PlanSettled
  \/ StepSettled
  \/ DelayElapsed
  \/ SingleSettled

ExtractSpec == ExtractInit /\ [][ExtractNext]_vars

(***************************************************************************)
(* The Builder page alone, every provider call settling in the end, every  *)
(* suspended handler resuming and the pause between two steps ending.      *)
(***************************************************************************)
\* The request of these runs is in the input box when they begin.
RunInit == InitWith(InitialCodes, {P_app}) /\ route = "builder"

\* What a call answers in these runs: no array (the fallback plan), a plan of
\* two steps, a plan whose second step has no prompt, a step response with
\* and without code; or it fails.
RunPlans ==
  { <<"x">>,
    <<"[", "{2}", ",", "{1}", "]">>,
    <<"[", "{1}", ",", "{n}", "]">> }

RunReplies ==
  {OkReply(t) : t \in RunPlans \cup StepResponses} \cup
  {FailedReply(e) : e \in ProviderErrors}

RunNext ==
  \/ ToggleAutoMode
  \/ sendMessage
  \/ \E r \in RunReplies : ProviderSettles(r)
  \/ PlanSettled
  \/ StepSettled
  \/ DelayElapsed
  \/ SingleSettled
  \/ RequestCancel

\* One of the outcomes of a provider call.  A call can settle with it whenever
\* it can settle at all, and no longer once it has settled: fairness for it
\* says that a call in flight settles in the end, with whatever outcome.
SomeOutcome == FailedReply(CHOOSE e \in ProviderErrors : TRUE)

RunSpec ==
  /\ RunInit
  /\ [][RunNext]_vars
  /\ WF_vars(ProviderSettles(SomeOutcome))
  /\ WF_vars(PlanSettled)
  /\ WF_vars(StepSettled)
  /\ WF_vars(DelayElapsed)
  /\ WF_vars(SingleSettled)

(***************************************************************************)
(* BuildChat alone, with one build more: a build can be started while the  *)
(* stream of the build before it is still open.                            *)
(***************************************************************************)
RebuildInit == Init /\ route = "build"

\* The frames the streams of the jobs started so far can deliver.
RebuildFrames ==
  UNION {NextFrames(job, streams[job]) : job \in 1..Len(streams)}

RebuildNext ==
  \/ \E t \in TypedInputs : setPrompt(t)
  \/ handleStartBuildUpTo(MaxBuilds + 1)
  \/ \E ok \in BOOLEAN : StartBuildSettles(ok)
  \/ \E job \in openSources : \E data \in RebuildFrames : onmessage(job, data)
  \/ \E job \in openSources : onerror(job)

RebuildSpec == RebuildInit /\ [][RebuildNext]_vars

(***************************************************************************)
(* The Builder page with requests made of cue words, run as the single     *)
(* step of the fallback plan: what chooseBestAI makes of them.             *)
(***************************************************************************)
\* A planning response without an array, and a step response without code.
RouteReplies == { OkReply(<<"x">>), OkReply(R_none) }

RouteInit == InitWith({EmptyText}, RoutePrompts) /\ route = "builder"

RouteNext ==
  \/ ToggleAutoMode
  \/ \E p \in Providers : SelectProvider(p)
  \/ sendMessage
  \/ \E r \in RouteReplies : ProviderSettles(r)
  \/ PlanSettled
  \/ StepSettled
  \/ DelayElapsed
  \/ SingleSettled

RouteSpec == RouteInit /\ [][RouteNext]_vars

(***************************************************************************)
(* Properties.                                                             *)
(***************************************************************************)
Last(q) == q[Len(q)]

\* Some stretch of the text t is a JSON array.
HasParseableArray(t) ==
  \E a \in 1..Len(t) : \E b \in a..Len(t) : IsJsonArray(SubSeq(t, a, b))

\* The planning call settled with a response that holds no JSON array.
UnparseablePlan(r) == r.ok /\ ~HasParseableArray(r.message)

\* The messages a provider failure can carry.
ProviderErrorMessages == {e.message : e \in ProviderErrors}

\* C1 (Auto Mode fallback): when the planning response holds no parseable
\* JSON array, the plan runAutoMode continues with is exactly one step whose
\* prompt is the user's request verbatim, the run goes on to dispatch that
\* step, and the run ends with the completed message or with the error of a
\* failed step call, never with an error caused by the plan.
C1_FallbackPlanRuns ==
  [][ /\ (pc = "plan_wait" /\ UnparseablePlan(reply) /\ pc' # "plan_wait") =>
           /\ Len(steps') = 1
           /\ steps'[1].hasPrompt
           /\ steps'[1].prompt = userRequest
           /\ autoSteps' = steps'
           /\ pc' = "step_wait"
           /\ isAutoRunning'
           /\ Len(calls') = Len(calls) + 1
           /\ Last(calls').kind = "step"
           /\ Last(calls').index = 1
           /\ SubSeq(Last(calls').prompt, 1, Len(userRequest)) = userRequest
           /\ \A k \in (Len(messages) + 1)..Len(messages') :
                 messages'[k].kind # "error"
      /\ (UnparseablePlan(planReply) /\ pc' = "idle") =>
           \/ Last(messages') = CompletedMsg
           \/ \E m \in ProviderErrorMessages : Last(messages') = ErrorMsg(m)
    ]_vars

\* C1, its case: a run is executing the single step made from a planning
\* response that holds no JSON array.
C1_Witness ==
  /\ UnparseablePlan(planReply)
  /\ planReply.message # EmptyText
  /\ pc = "step_wait"
  /\ Len(steps) = 1
  /\ steps[1].prompt = userRequest

\* The frames fs without those whose id an earlier frame of fs has.
RECURSIVE FirstArrivals(_)
FirstArrivals(fs) ==
  IF fs = << >> THEN << >>
  ELSE <<fs[1]>> \o FirstArrivals(SelectSeq(Tail(fs), LAMBDA g : g.id # fs[1].id))

\* C2 (event ordering): the timeline `events` holds every event frame the
\* component received since the build was started exactly once, in the order
\* of first arrival, and no two of its entries have the same id.
C2_TimelineIsFirstArrivals ==
  /\ events = FirstArrivals(received)
  /\ \A k \in 1..Len(received) : \E j \in 1..Len(events) : events[j] = received[k]
  /\ \A i, j \in 1..Len(events) : i # j => events[i].id # events[j].id

\* C2, its case: a frame arrived a second time after a later frame and the
\* timeline did not take it again.
C2_Witness ==
  /\ Len(events) >= 3
  /\ Len(received) > Len(events)
  /\ Last(received).id # Last(events).id

\* C3 (monotonic progress): while a build or an Auto Mode run is running, the
\* progress presented (BuildChat: progress; Builder: currentStep of
\* autoSteps) does not decrease from one update to the next, and it is 100
\* when the job ends in success (BuildChat: on the job_completed frame;
\* Builder: the last step was the current one when the run completed).
C3_ProgressNeverDecreases ==
  [][ /\ (isBuilding /\ isBuilding') => progress' >= progress
      /\ (isAutoRunning /\ isAutoRunning' /\ autoSteps # << >> /\ autoSteps' = autoSteps) =>
           currentStep' >= currentStep
      /\ (isBuilding /\ mounted /\ buildCompletes' # buildCompletes) => progress' = 100
      /\ (isAutoRunning /\ ~isAutoRunning' /\ Last(messages') = CompletedMsg) =>
           currentStep = Len(autoSteps)
    ]_vars

\* An Auto Mode run has ended: its completed message or its error message
\* is the last message.
RunCompleted == pc = "idle" /\ messages # << >> /\ Last(messages) = CompletedMsg
RunFailed ==
  /\ pc = "idle"
  /\ messages # << >>
  /\ Last(messages).role = "system"
  /\ Last(messages).kind = "error"

\* The build BuildChat follows was reported completed, or reported failed.
BuildSucceeded == \E k \in 1..Len(received) : received[k].type = "job_completed"
BuildFailed == \E k \in 1..Len(received) : received[k].type = "error"

\* C4 (terminal exclusivity): once the outcome of a job is known, exactly one
\* of its artifact (on success) and its error (on failure) is there.  Builder,
\* for a run started with no generated code: a completed run has generated
\* code, a failed run has none.  BuildChat: a build reported completed shows
\* no error, and a build reported failed shows its error and was not handed
\* to onBuildComplete.
C4_ArtifactOrError ==
  /\ (RunCompleted /\ closure.generatedCode = EmptyText) => generatedCode # EmptyText
  /\ (RunFailed /\ closure.generatedCode = EmptyText) => generatedCode = EmptyText
  /\ (mounted /\ BuildSucceeded) => error = ""
  /\ (mounted /\ BuildFailed) => (error # "" /\ currentJob \notin buildCompletes)

\* The provider calls and the messages of the latest Auto Mode run.
RunCalls ==
  LET plans == {k \in 1..Len(calls) : calls[k].kind = "plan"}
  IN  IF plans = {} THEN << >>
      ELSE SubSeq(calls, 1 + CHOOSE k \in plans : \A j \in plans : j <= k, Len(calls))

RunMessages ==
  LET starts == {k \in 1..Len(messages) : messages[k] = ActivatedMsg}
  IN  IF starts = {} THEN << >>
      ELSE SubSeq(messages, 1 + CHOOSE k \in starts : \A j \in starts : j <= k,
                  Len(messages))

\* The responses of the steps of the latest run that have settled.
StepResults ==
  SelectSeq(RunMessages, LAMBDA m : m.role = "assistant" /\ m.kind = "text")

InRun == pc \in {"step_wait", "delay"}

\* C5 as first stated: the order of execution follows the `step` numbers of
\* the plan, so of two steps dispatched the earlier has the lower number.
C5_StepNumberOrder ==
  InRun => \A i, j \in 1..stepI : i < j => steps[i].step < steps[j].step

\* C5 (steps in order): the step calls of a run are the elements of the plan
\* array in the order of their positions, 1, 2, 3, ... with none skipped or
\* repeated, and the call of position k is issued only when the calls of all
\* positions before k have settled with a response.
C5_StepsInArrayOrder ==
  InRun =>
    /\ Len(RunCalls) = stepI
    /\ stepI <= Len(steps)
    /\ \A k \in 1..stepI :
         /\ RunCalls[k].kind = "step"
         /\ RunCalls[k].index = k
         /\ SubSeq(RunCalls[k].prompt, 1, Len(steps[k].prompt)) = steps[k].prompt
    /\ Len(StepResults) = IF pc = "step_wait" THEN stepI - 1 ELSE stepI

\* C5, its case: the third step of a plan is in flight after two settled.
C5_Witness ==
  /\ pc = "step_wait"
  /\ stepI = 3
  /\ Len(StepResults) = 2

\* The code that is current after the responses rs, starting from code c.
RECURSIVE CodeAfter(_, _)
CodeAfter(c, rs) ==
  IF rs = << >> THEN c
  ELSE LET e == extractCodeFromResponse(rs[1].content)
       IN  CodeAfter(IF e # EmptyText THEN e ELSE c, Tail(rs))

\* The cumulative code when the step in flight was dispatched.
CumulativeCode ==
  CodeAfter(extractCodeFromResponse(closure.generatedCode), StepResults)

WithContext(own, code) == own \o BuildUpon \o code \o NL \o Fence

\* C6 as first stated: step 1 is sent its own prompt alone; a later step is
\* sent its own prompt plus the cumulative code.
C6_FirstStepWithoutContext ==
  (pc = "step_wait") =>
    LET own == steps[stepI].prompt
    IN  IF stepI = 1 THEN Last(calls).prompt = own
        ELSE Last(calls).prompt =
               IF CumulativeCode = EmptyText THEN own
               ELSE WithContext(own, CumulativeCode)

\* C6 (effective step prompt): every step, the first included, is sent its
\* own prompt, followed, when the cumulative code is not empty, by the build
\* upon wrapper around that code; the cumulative code is the code extracted
\* from what Builder held when the run started, replaced by each non-empty
\* extraction of a step since.
C6_PromptCarriesCumulativeCode ==
  (pc = "step_wait") =>
    LET own == steps[stepI].prompt
    IN  /\ Last(calls).kind = "step"
        /\ Last(calls).index = stepI
        /\ Last(calls).prompt =
              IF CumulativeCode = EmptyText THEN own
              ELSE WithContext(own, CumulativeCode)

\* C6, its case: a first step is sent with code context, Builder having held
\* generated code when the run started.
C6_Witness ==
  /\ pc = "step_wait"
  /\ stepI = 1
  /\ CumulativeCode # EmptyText
  /\ Last(calls).prompt # steps[1].prompt

\* C7 (monotonic carry-forward): when a step settles with a response, the
\* cumulative code and the generated code Builder keeps are replaced only if
\* the extraction of the response is not empty; with an empty extraction
\* both stay what they were before the step, and the code the next step is
\* given is that same code.
C7_CarryForward ==
  [][ /\ (pc = "step_wait" /\ pc' = "delay") =>
           LET e == extractCodeFromResponse(reply.message)
           IN  IF e = EmptyText
                 THEN currentCode' = currentCode /\ generatedCode' = generatedCode
                 ELSE currentCode' = e /\ generatedCode' = reply.message
      /\ (pc = "delay" /\ pc' = "step_wait") =>
           /\ currentCode' = currentCode
           /\ generatedCode' = generatedCode
           /\ currentCode # EmptyText =>
                Last(calls').prompt = WithContext(steps[stepI'].prompt, currentCode)
    ]_vars

\* C7, its case: a step answered without any code after code had been
\* gathered, and the next step is being sent that code.
C7_Witness ==
  /\ pc = "step_wait"
  /\ stepI >= 2
  /\ Last(StepResults).content = R_none
  /\ extractCodeFromResponse(R_none) = EmptyText
  /\ currentCode # EmptyText
  /\ generatedCode # EmptyText

\* C8 (step failure): when the provider call of a step fails, the run ends
\* at once with the error message carrying the failure's own message, no
\* further call is issued, and the messages and the generated code that the
\* earlier steps left are kept as they were; after a run ended in error no
\* step call follows.
C8_StepFailureEndsRun ==
  [][ /\ (pc = "step_wait" /\ reply # NoReply /\ ~reply.ok /\ pc' # "step_wait") =>
           /\ pc' = "idle"
           /\ ~isAutoRunning'
           /\ currentStep' = 0
           /\ messages' = Append(messages, ErrorMsg(reply.error.message))
           /\ reply.error.message \in ProviderErrorMessages
           /\ calls' = calls
           /\ generatedCode' = generatedCode
      /\ (RunFailed /\ calls' # calls) => Last(calls').kind # "step"
    ]_vars

\* C8, its case: the second step of a run failed after the first had left
\* code, and the run has ended.
C8_Witness ==
  /\ RunFailed
  /\ Last(messages).label \in ProviderErrorMessages
  /\ Len(RunCalls) = 2
  /\ Len(StepResults) = 1
  /\ generatedCode = StepResults[1].content
  /\ generatedCode # closure.generatedCode

\* Scenario B: a run with a plan of three well-formed steps has ended on the
\* failure of the provider call of step 2.
ScenarioB ==
  /\ RunFailed
  /\ Len(steps) = 3
  /\ \A k \in 1..3 : steps[k].hasPrompt /\ steps[k].step = k
  /\ Len(RunCalls) = 2
  /\ Last(messages).label \in ProviderErrorMessages

C10_CancelStopsBeforeStep3 ==
  (cancelRequest.requested /\ cancelRequest.after = 2 /\ Len(steps) = 4) =>
    /\ \A k \in 1..Len(RunCalls) : RunCalls[k].index <= 2
    /\ \A k \in 1..Len(RunMessages) :
         RunMessages[k].kind = "step" => RunMessages[k].index <= 2
    /\ currentStep <= 2

\* Scenario A has run: the single-shot request "Build a pricing page" was
\* answered with the one-line html block and sendMessage has returned.
ScenarioA ==
  /\ pc = "idle"
  /\ calls # << >>
  /\ Last(calls).kind = "single"
  /\ Last(calls).prompt = PricingPrompt
  /\ messages # << >>
  /\ Last(messages) = AssistantMsg(PricingResponse)

\* C11: after Scenario A the request has ended in success and the code
\* extracted from what was generated is exactly the line <div>Pricing</div>,
\* with nothing before or after it.
C11_ScenarioA ==
  ScenarioA =>
    /\ ~loading
    /\ generatedCode = PricingResponse
    /\ extractCodeFromResponse(generatedCode) = PricingLine

\* The step call in flight carried the cumulative code, wrapped in a fence by
\* executeStep, and the provider has answered with that prompt as it is.
Reinjected ==
  /\ pc = "step_wait"
  /\ reply.ok
  /\ currentCode # EmptyText
  /\ reply.message = Last(calls).prompt

\* C12: extracting from the text in which executeStep re-injected the code c,
\* wrapped in a fence, recovers c: a step answered with its own prompt leaves
\* the cumulative code as it was.
C12_WrapThenExtract ==
  [][ (Reinjected /\ pc' = "delay") => currentCode' = currentCode ]_vars

\* The positions of the fences of t, read from the left without overlap.
RECURSIVE FencePositions(_, _)
FencePositions(t, i) ==
  IF i > Len(t) THEN << >>
  ELSE IF HasAt(t, i, Fence) THEN <<i>> \o FencePositions(t, i + 3)
  ELSE FencePositions(t, i + 1)

\* The fenced blocks of t: its fences taken in pairs, an opening one and the
\* closing one after it, each with the tag written between the opening fence
\* and the end of its line, and the body between that line and the closing
\* fence.  An opening fence whose line does not end before the closing fence
\* makes no block.
BlockOf(t, o, c) ==
  LET ends == {k \in (o + 3)..(c - 1) : t[k] = "\n"}
      e == CHOOSE k \in ends : \A j \in ends : k <= j
  IN  IF ends = {} THEN << >>
      ELSE << [tag |-> SubSeq(t, o + 3, e - 1), body |-> SubSeq(t, e + 1, c - 1)] >>

RECURSIVE BlocksFrom(_, _)
BlocksFrom(t, ps) ==
  IF Len(ps) < 2 THEN << >>
  ELSE BlockOf(t, ps[1], ps[2]) \o BlocksFrom(t, Tail(Tail(ps)))

FencedBlocks(t) == BlocksFrom(t, FencePositions(t, 1))

\* The language tags the extractor recognises, and no tag at all.
RecognisedTags ==
  { EmptyText, <<"h","t","m","l">>, <<"j","s","x">>, <<"c","s","s">>,
    <<"j","a","v","a","s","c","r","i","p","t">> }

RECURSIVE RecognisedBodies(_)
RecognisedBodies(bs) ==
  IF bs = << >> THEN << >>
  ELSE (IF Head(bs).tag \in RecognisedTags THEN <<Head(bs).body>> ELSE << >>)
       \o RecognisedBodies(Tail(bs))

\* The bodies of the recognised blocks of t, in order, a blank line between two.
BlockBodies(t) == Join(RecognisedBodies(FencedBlocks(t)), NL \o NL)

\* C13: the code extracted from the stored or generated text is exactly the
\* bodies of its recognised fenced blocks, in order of appearance, separated
\* by a blank line: nothing of the text outside the fences, and nothing of a
\* block with another language tag, is in it.
C13_ExactlyTheBlockBodies ==
  extractCodeFromResponse(generatedCode) = BlockBodies(generatedCode)

\* t has no complete fenced block: it is empty, or has no fence, or has one
\* fence only.
NoCompleteBlock(t) == Len(FencePositions(t, 1)) < 2

\* A step has been answered, without failure, by a text with no complete block.
AnsweredWithoutBlock ==
  /\ pc = "step_wait"
  /\ reply.ok
  /\ NoCompleteBlock(reply.message)

\* C14: of a text with no complete fenced block the extractor returns the
\* empty result, and the preview of such a text is empty; a step answered by
\* such a text is a completed step: the run goes on to the pause before the
\* next step, the answer is shown, no error message is appended, and the
\* cumulative and the generated code stay as they were.
C14_NoBlockIsNoFailure ==
  /\ [](NoCompleteBlock(generatedCode) =>
          /\ extractCodeFromResponse(generatedCode) = EmptyText
          /\ getPreviewContent(generatedCode) = EmptyText)
  /\ [][ (AnsweredWithoutBlock /\ pc' # pc) =>
           /\ pc' = "delay"
           /\ isAutoRunning'
           /\ messages' = Append(messages, AssistantMsg(reply.message))
           /\ currentCode' = currentCode
           /\ generatedCode' = generatedCode ]_vars

\* A step was answered by an unterminated fence and the run is in the pause
\* before the next step.
C14_Witness ==
  /\ pc = "delay"
  /\ Last(messages).role = "assistant"
  /\ Len(FencePositions(Last(messages).content, 1)) = 1

\* The lower-cased text p holds one of the cues.
HasCue(p, cues) == \E w \in cues : \E i \in 1..Len(p) : HasAt(p, i, w)

\* The loop has just dispatched a step.
StepDispatched == pc # "step_wait" /\ pc' = "step_wait"

\* C15: the provider chosen for a step depends on the step's prompt and the
\* caller's selected provider alone, by the fixed precedence design > logic >
\* speed > caller's choice; a prompt with "beautiful design" and no cue of
\* another bucket gets the design target.
C15_FixedPrecedence ==
  [][ StepDispatched =>
        LET p == toLowerCase(steps'[stepI'].prompt)
            hasDesign == HasCue(p, { <<"d","e","s","i","g","n">>, <<"u","i">>,
                                     <<"b","e","a","u","t","i","f","u","l">>,
                                     <<"s","t","y","l","e">> })
            hasLogic == HasCue(p, { <<"c","o","m","p","l","e","x">>,
                                    <<"l","o","g","i","c">>,
                                    <<"f","u","n","c","t","i","o","n">>,
                                    <<"a","l","g","o","r","i","t","h","m">> })
            hasSpeed == HasCue(p, { <<"f","a","s","t">>, <<"s","i","m","p","l","e">>,
                                    <<"q","u","i","c","k">> })
        IN  /\ hasDesign => aiProvider' = "claude"
            /\ (~hasDesign /\ hasLogic) => aiProvider' = "openai"
            /\ (~hasDesign /\ ~hasLogic /\ hasSpeed) => aiProvider' = "gemini"
            /\ (~hasDesign /\ ~hasLogic /\ ~hasSpeed) => aiProvider' = closure.aiProvider
            /\ (steps'[stepI'].prompt =
                  <<"b","e","a","u","t","i","f","u","l"," ","D","e","s","i","g","n">>)
                 => aiProvider' = "claude" ]_vars

\* A step whose prompt has a logic cue and then a design cue is in flight,
\* the caller having selected grok.
C15_Witness ==
  /\ pc = "step_wait"
  /\ steps[stepI].prompt = <<"l","o","g","i","c"," ","D","e","s","i","g","n">>
  /\ closure.aiProvider = "grok"
  /\ aiProvider = "claude"

\* A provider call of a single-shot request or of a step has failed and its
\* handler is about to resume.
ProviderCallFailed ==
  /\ pc \in {"single_wait", "step_wait"}
  /\ reply # NoReply
  /\ ~reply.ok

\* C18: when a provider call fails, the request ends and the last message
\* shown is an error message whose text is the error text of the failed call
\* itself (the error's message, or the detail the server sent with it), never
\* another text put in its place.
C18_ErrorTextVerbatim ==
  [][ (ProviderCallFailed /\ pc' # pc) =>
        /\ pc' = "idle"
        /\ Last(messages').kind = "error"
        /\ Last(messages').label \in
             ({reply.error.message, reply.error.detail} \ {""}) ]_vars

\* The jobs whose sentinel is received in this step.
NewlyEnded == ended' \ ended

\* C16: the sentinel comes once the job is terminal (it has completed, failed
\* or was asked to stop); on receiving it the page closes the job's
\* EventSource, leaves the event timeline as it is, and leaves its busy state:
\* BuildChat sets isBuilding false, AgentChat issues the one Get job of that
\* job and sets isLoading false when it settles.  A job whose sentinel was
\* received has no open EventSource, no sentinel is in a timeline, and no
\* event of such a job is appended to a timeline.
C16_StreamTermination ==
  /\ [](/\ ended \cap openSources = {}
        /\ \A k \in 1..Len(events) : events[k].type # "stream_end"
        /\ \A k \in 1..Len(agentEvents) : agentEvents[k].type # "stream_end")
  /\ [][ \A j \in NewlyEnded :
           /\ j \in openSources
           /\ j \notin openSources'
           /\ HasEvent(j, "job_completed") \/ HasEvent(j, "error") \/ j \in stopped
           /\ events' = events
           /\ agentEvents' = agentEvents
           /\ (route = "build" /\ mounted) => ~isBuilding'
           /\ route = "agent" => (fetchPending = 0 /\ fetchPending' = j) ]_vars
  /\ [][ /\ (fetchPending' # fetchPending /\ fetchPending' # 0) =>
             (fetchPending = 0 /\ fetchPending' \in openSources \ openSources')
         /\ (fetchPending # 0 /\ fetchPending' = 0 /\ mounted) => ~isLoading' ]_vars
  /\ [][ /\ Len(events') > Len(events) => Last(events').job \notin ended
         /\ Len(agentEvents') > Len(agentEvents) =>
              Last(agentEvents').job \notin ended ]_vars

\* AgentChat has received a job's events and its sentinel, has fetched the
\* job and is no longer loading.
C16_Witness ==
  /\ route = "agent"
  /\ mounted
  /\ ended # {}
  /\ agentEvents # << >>
  /\ fetchPending = 0
  /\ ~isLoading
  /\ agentJob.status = "success"

\* C17: the return of a cancel request does not end the page's observation of
\* the job: the EventSource of the job BuildChat asked to cancel stays open
\* when cancelJob settles, and AgentChat's stop request closes no EventSource
\* and leaves isLoading as it is, so that the terminal state can still come by
\* the stream or by the Get job after it.
C17_CancelKeepsObserving ==
  /\ [][ (cancelPending # 0 /\ cancelPending' = 0 /\ cancelPending \in openSources)
           => (cancelPending \in openSources' /\ isBuilding' = isBuilding) ]_vars
  /\ [][ stopped' # stopped =>
           (openSources' = openSources /\ isLoading' = isLoading) ]_vars

\* C19: the failure shown is the failure of the job by either channel:
\* BuildChat, on the error event, shows that event's message; AgentChat, once
\* it has fetched a failed job, shows as its last message the job's error and
\* not a message of completion.
C19_SameFailureInformation ==
  /\ [][ (Len(received') > Len(received) /\ Last(received').type = "error")
           => error' = Last(received').message ]_vars
  /\ [](agentJob.status = "failed" =>
          /\ Last(agentMessages).role = "assistant"
          /\ Last(agentMessages).label = agentJob.error
          /\ Last(agentMessages).label # "Task completed.")

\* C20: while a step's provider call is in flight, it is a call to the
\* provider chooseBestAI returned for that step, which is the provider the
\* page shows as selected.
C20_CallGoesToChosenProvider ==
  pc = "step_wait" =>
    /\ Last(calls).kind = "step"
    /\ Last(calls).index = stepI
    /\ Last(calls).provider = aiProvider

\* The text p has the word w: w stands in it between blanks or the ends of p.
HasWord(p, w) ==
  \E i \in 1..Len(p) :
    /\ HasAt(p, i, w)
    /\ i = 1 \/ p[i - 1] = " "
    /\ i + Len(w) > Len(p) \/ p[i + Len(w)] = " "

HasWordOf(p, ws) == \E w \in ws : HasWord(p, w)

\* C21: a step whose prompt has one of the words fast, simple, quick, none of
\* the words design, ui, beautiful, style and none of the words complex,
\* logic, function, algorithm is routed to gemini.
C21_SpeedRouting ==
  [][ StepDispatched =>
        LET p == toLowerCase(steps'[stepI'].prompt)
        IN  ( /\ HasWordOf(p, { <<"f","a","s","t">>, <<"s","i","m","p","l","e">>,
                                <<"q","u","i","c","k">> })
              /\ ~HasWordOf(p, { <<"d","e","s","i","g","n">>, <<"u","i">>,
                                 <<"b","e","a","u","t","i","f","u","l">>,
                                 <<"s","t","y","l","e">> })
              /\ ~HasWordOf(p, { <<"c","o","m","p","l","e","x">>,
                                 <<"l","o","g","i","c">>,
                                 <<"f","u","n","c","t","i","o","n">>,
                                 <<"a","l","g","o","r","i","t","h","m">> }) )
            => aiProvider' = "gemini" ]_vars

\* The planning call of the latest Auto Mode run: it was sent to the provider
\* selected when the run was started.
PlanCall ==
  LET plans == {k \in 1..Len(calls) : calls[k].kind = "plan"}
  IN  calls[CHOOSE k \in plans : \A j \in plans : j <= k]

\* The lower-cased text p holds no cue of any bucket.
NoCue(p) ==
  /\ ~HasCue(p, { <<"d","e","s","i","g","n">>, <<"u","i">>,
                  <<"b","e","a","u","t","i","f","u","l">>, <<"s","t","y","l","e">> })
  /\ ~HasCue(p, { <<"c","o","m","p","l","e","x">>, <<"l","o","g","i","c">>,
                  <<"f","u","n","c","t","i","o","n">>,
                  <<"a","l","g","o","r","i","t","h","m">> })
  /\ ~HasCue(p, { <<"f","a","s","t">>, <<"s","i","m","p","l","e">>,
                  <<"q","u","i","c","k">> })

\* C22: for a step whose prompt holds no cue, the provider chosen is the one
\* that was selected when the run was started, whatever the steps before it
\* were routed to.
C22_DefaultKeepsCallersChoice ==
  [][ (StepDispatched /\ steps'[stepI'].hasPrompt
         /\ NoCue(toLowerCase(steps'[stepI'].prompt)))
        => aiProvider' = PlanCall.provider ]_vars

\* The third step of a run started with grok selected, a step without cue, is
\* in flight after a design step and a logic step.
C22_Witness ==
  /\ pc = "step_wait"
  /\ stepI = 3
  /\ steps[1].prompt = P_design
  /\ steps[2].prompt = P_logic
  /\ steps[3].prompt = P_app
  /\ PlanCall.provider = "grok"
  /\ aiProvider = "grok"

\* The first stretch of the text t that is a JSON array: the one that starts
\* leftmost.
FirstArray(t) ==
  LET starts == {a \in 1..Len(t) : \E b \in a..Len(t) : IsJsonArray(SubSeq(t, a, b))}
      a0 == CHOOSE a \in starts : \A x \in starts : a <= x
      b0 == CHOOSE b \in a0..Len(t) : IsJsonArray(SubSeq(t, a0, b))
  IN  SubSeq(t, a0, b0)

\* C23: when the planning response holds a well-formed JSON array, with
\* whatever text before and after it, the plan of the run is the steps of the
\* first such array of the response, not the synthetic single step.
C23_FirstWellFormedArray ==
  [][ (pc = "plan_wait" /\ reply.ok /\ HasParseableArray(reply.message) /\ pc' # pc)
        => steps' = JSONparse(FirstArray(reply.message)) ]_vars

\* C24: when the planning call itself fails, the run ends as failed at once:
\* runAutoMode returns, its last message is an error message with the text of
\* the failed call, and no step is sent to a provider.
C24_PlanningFailureEndsRun ==
  [][ (pc = "plan_wait" /\ reply # NoReply /\ ~reply.ok /\ pc' # pc)
        => /\ pc' = "idle"
           /\ ~isAutoRunning'
           /\ calls' = calls
           /\ Last(messages').kind = "error"
           /\ Last(messages').label \in
                ({reply.error.message, reply.error.detail} \ {""}) ]_vars

\* The provider ids routing can return.
ProviderIds == {"openai", "grok", "claude", "gemini"}

\* C25: routing returns a provider id for every step of every plan and never
\* raises: the provider shown is always a provider id, and a run gets an
\* error message only when a provider call of it has failed.
C25_RoutingNeverFails ==
  /\ [](aiProvider \in ProviderIds)
  /\ [][ (Len(messages') > Len(messages) /\ Last(messages').role = "system"
            /\ Last(messages').kind = "error")
           => (reply # NoReply /\ ~reply.ok) ]_vars

\* The terminal messages of the latest Auto Mode run.
TerminalMessages ==
  {k \in 1..Len(RunMessages) :
     /\ RunMessages[k].role = "system"
     /\ RunMessages[k].kind \in {"completed", "error"}}

\* C26: a run that was started comes to its end; it is running exactly while
\* runAutoMode is suspended; while it is running it has no terminal message,
\* once it is over it has exactly one; the step that appends the terminal
\* message is the one in which runAutoMode returns; and when no run is in
\* progress isAutoRunning is false and currentStep is 0.
C26_RunTerminatesOnce ==
  /\ [](isAutoRunning <=> pc \in {"plan_wait", "step_wait", "delay"})
  /\ [](isAutoRunning => TerminalMessages = {})
  /\ []((~isAutoRunning /\ RunMessages # << >>) => Cardinality(TerminalMessages) = 1)
  /\ [](~isAutoRunning => currentStep = 0)
  /\ [][ (Len(messages') > Len(messages) /\ Last(messages').role = "system"
            /\ Last(messages').kind \in {"completed", "error"})
           => (isAutoRunning /\ ~isAutoRunning' /\ pc' = "idle") ]_vars
  /\ (isAutoRunning ~> ~isAutoRunning)

\* A run of two steps is over with the completion message.
C26_Witness ==
  /\ pc = "idle"
  /\ ~isAutoRunning
  /\ Len(RunMessages) >= 6
  /\ Cardinality(TerminalMessages) = 1
  /\ \E k \in TerminalMessages : RunMessages[k] = CompletedMsg


\* C27: at most one EventSource of the page is open at a time, an open one is
\* the latest the page has opened (a superseded one has been closed), and none
\* is open once the component is unmounted.
C27_NoLeakedSubscription ==
  /\ Cardinality(openSources) <= 1
  /\ route = "build" => \A j \in openSources : j = eventSourceRef
  /\ ~mounted => openSources = {}


C29_ErrorEndsBuilding == error # "" => ~isBuilding


\* A later build of BuildChat is under way: a job has been started after the
\* first one, and the start request has settled.
LaterBuild == Len(streams) >= 2 /\ ~startPending

\* This step is the handling of a frame, of the end or of a transport error of
\* the stream of `job`.
StepOfStream(job) ==
  \/ Len(received') > Len(received) /\ Last(received').job = job
  \/ job \in openSources /\ job \notin openSources'

\* C30: once a later build has been started, the timeline holds events of the
\* new job only, and every change of events, isBuilding, progress or error is
\* the handling of a frame (or of the end) of the new job's stream.
C30_OnlyTheNewStream ==
  /\ [](LaterBuild => \A k \in 1..Len(events) : events[k].job = Len(streams))
  /\ [][ (LaterBuild /\ LaterBuild'
            /\ << events, isBuilding, progress, error >>' #
               << events, isBuilding, progress, error >>)
           => StepOfStream(Len(streams)) ]_vars

=============================================================================
